---------------------------- MODULE Spec2Model ----------------------------
(***************************************************************************)
(* Model of the adaptive packet dropper: the user-space loader             *)
(* (src/ebpf/loader.c) and the TC classifier it attaches                   *)
(* (src/ebpf/packet_dropper.bpf.c), which share one record of state_map.   *)
(*                                                                         *)
(* TLC's integers are 32 bits wide, so the C integer types are modelled    *)
(* with scaled-down widths (LongBits, U64Bits, U32Bits below); the         *)
(* arithmetic is the code's arithmetic at that width.  A double is         *)
(* modelled as an exact rational [num, den]; den = 0 stands for the        *)
(* IEEE-754 results of dividing by zero (num > 0: +inf, num = 0: NaN).     *)
(***************************************************************************)
EXTENDS Integers, Sequences, FiniteSets, TLC

(***************************************************************************)
(* Bounds of the model.                                                    *)
(***************************************************************************)
\* width of C `long` in the model (64 in an LP64 build)
LongBits == 20
\* width of __u64 in the model
U64Bits == 24
\* width of __u32 in the model
U32Bits == 16
\* packets that enter the classifier in one behaviour
MaxPackets == 2
\* iterations of the dynamic-mode loop in one behaviour
MaxIter == 2
\* the monotonic clock stops advancing here (ns)
MaxClockNs == 2000000000
\* the CPUs the classifier runs on: invocations on different CPUs overlap
Cpus == {"cpu0", "cpu1"}

(***************************************************************************)
(* Program constants.                                                      *)
(***************************************************************************)
DEFAULT_MIN_RATE_PPS == 1000
DEFAULT_MAX_RATE_PPS == 100000
DEFAULT_MAX_PROBABILITY == 50
UPDATE_INTERVAL_SEC == 1
NSEC_PER_SEC == 1000000000
\* the modulus of bpf_get_prandom_u32() % 100
DRAW_MODULUS == 100

RECURSIVE Pow2(_)
Pow2(n) == IF n = 0 THEN 1 ELSE 2 * Pow2(n - 1)

LONG_MIN == 0 - Pow2(LongBits - 1)

\* two's-complement wrap of a signed long result
WrapLong(x) == ((x + Pow2(LongBits - 1)) % Pow2(LongBits)) - Pow2(LongBits - 1)

\* __u64 subtraction of values below the modulus: exact, or wrapped on a borrow
U64Sub(a, b) == IF a >= b THEN a - b ELSE a - b + Pow2(U64Bits)

RECURSIVE GCD(_, _)
GCD(a, b) == IF b = 0 THEN a ELSE GCD(b, a % b)

\* integer division truncating toward zero (C conversion of a double to an integer)
TruncDiv(n, d) ==
    LET an == IF n < 0 THEN 0 - n ELSE n
        ad == IF d < 0 THEN 0 - d ELSE d
        q  == an \div ad
    IN  IF (n < 0) = (d < 0) THEN q ELSE 0 - q


(***************************************************************************)
(* The rate-to-probability mapping of the dynamic loop (loader.c 215-220). *)
(***************************************************************************)
\* double pps = (double)count_diff * 1e9 / time_diff_ns, as a reduced fraction
PpsOf(count_diff, time_diff_ns) ==
    LET g == GCD(NSEC_PER_SEC, time_diff_ns)
    IN  [num |-> count_diff * (NSEC_PER_SEC \div g), den |-> time_diff_ns \div g]

\* pps > r for a long r; false for NaN, true for +inf
PpsGT(pps, r) ==
    IF pps.den = 0 THEN pps.num > 0 ELSE pps.num > r * pps.den

\* pps >= r for a long r; false for NaN, true for +inf
PpsGE(pps, r) ==
    IF pps.den = 0 THEN pps.num > 0 ELSE pps.num >= r * pps.den

\* (__u32) of the double n/d: truncation when the truncated value fits a __u32;
\* otherwise the conversion is undefined and the build decides: the low bits of
\* the 64-bit conversion (x86-64 cvttsd2si) or saturation (AArch64 fcvtzu).
CastU32(n, d) ==
    LET t == TruncDiv(n, d)
    IN  IF t >= 0 /\ t < Pow2(U32Bits) THEN {t}
        ELSE {t % Pow2(U32Bits), IF t < 0 THEN 0 ELSE Pow2(U32Bits) - 1}

\* ((pps - min_rate) / (max_rate - min_rate)) * max_prob converted to __u32;
\* max_rate - min_rate is a long subtraction
Interpolate(pps, minr, maxr, maxp) ==
    CastU32((pps.num - minr * pps.den) * maxp, pps.den * WrapLong(maxr - minr))

\* the values new_prob can take (one value unless a conversion is undefined)
NewProb(pps, minr, maxr, maxp) ==
    IF PpsGT(pps, minr)
    THEN IF PpsGE(pps, maxr) THEN {maxp % Pow2(U32Bits)} ELSE Interpolate(pps, minr, maxr, maxp)
    ELSE {0}

(***************************************************************************)
(* Command lines.  An option's argument is a string; atol converts it.     *)
(***************************************************************************)
atol(s) ==
    CASE s = "0"        -> 0
      [] s = "1"        -> 1
      [] s = "3"        -> 3
      [] s = "37"       -> 37
      [] s = "50"       -> 50
      [] s = "100"      -> 100
      [] s = "101"      -> 101
      [] s = "150"      -> 150
      [] s = "-1"       -> 0 - 1
      [] s = "-5"       -> 0 - 5
      [] s = "1000"     -> 1000
      [] s = "100000"   -> 100000
      [] s = "LONG_MIN" -> LONG_MIN
      [] OTHER          -> 0

\* a command line: the --mode argument ("" when the option is absent), the
\* arguments of -p, -P, -m, -M (a function on the options given), -h, and
\* whether a positional interface name follows the options
Cmd(m, o, h, i) == [mode |-> m, opts |-> o, help |-> h, ifname |-> i]

NoOpts == [x \in {} |-> ""]
Opt1(a, x) == [k \in {a} |-> x]
Opt3(x, y, z) == [k \in {"P", "m", "M"} |-> IF k = "P" THEN x ELSE IF k = "m" THEN y ELSE z]
Opt2(y, z) == [k \in {"m", "M"} |-> IF k = "m" THEN y ELSE z]

DynamicCmdlines ==
    { Cmd("dynamic", Opt3("50", "1", "3"), FALSE, TRUE),
      Cmd("dynamic", Opt3("100", "3", "1"), FALSE, TRUE),
      Cmd("dynamic", Opt2("LONG_MIN", "1"), FALSE, TRUE) }

FixedCmdlines ==
    { Cmd("fixed", Opt1("p", "37"), FALSE, TRUE),
      Cmd("fixed", Opt1("p", "0"), FALSE, TRUE),
      Cmd("fixed", Opt1("p", "100"), FALSE, TRUE) }

RejectedCmdlines ==
    { Cmd("", Opt1("p", "37"), FALSE, TRUE),
      Cmd("bogus", Opt1("p", "37"), FALSE, TRUE),
      Cmd("fixed", NoOpts, FALSE, TRUE),
      Cmd("fixed", Opt1("p", "150"), FALSE, TRUE),
      Cmd("fixed", Opt1("p", "-5"), FALSE, TRUE),
      Cmd("fixed", Opt1("p", "-1"), FALSE, TRUE),
      Cmd("dynamic", Opt1("P", "101"), FALSE, TRUE),
      Cmd("dynamic", Opt1("P", "-5"), FALSE, TRUE),
      Cmd("dynamic", NoOpts, FALSE, FALSE),
      Cmd("fixed", Opt1("p", "37"), FALSE, FALSE),
      Cmd("dynamic", NoOpts, TRUE, TRUE) }

Cmdlines == DynamicCmdlines \cup FixedCmdlines \cup RejectedCmdlines

(***************************************************************************)
(* State.                                                                  *)
(***************************************************************************)
VARIABLES
    argv,               \* the command line (fixed for a behaviour)
    mode,               \* main's locals set by option parsing
    prob,
    max_prob,
    min_rate,
    max_rate,
    pc,                 \* main's position
    proc,               \* "running", "exit0", "exit1", "killed" or "hung"
    handlers,           \* the signals whose disposition is cleanup
    hstack,             \* the cleanup handlers running, innermost last (empty
                        \* once the process has ended)
    hook,               \* the kernel's TC hook on the interface and its filters
    state_map,          \* the single record of state_map (key 0)
    last_time_ns,       \* the dynamic loop's locals
    last_packet_count,
    current_state,
    clock,              \* CLOCK_MONOTONIC, in ns
    fp,                 \* the classifier invocation on each CPU
    hist                \* history: hook creation attempted, attach attempted, a
                        \* setup call failed, a handler was started, calls of
                        \* bpf_map_update_elem and of cleanup, packets, iterations,
                        \* ns slept since the last sample that was taken

cfgvars  == <<argv, mode, prob, max_prob, min_rate, max_rate>>
procvars == <<pc, proc, handlers, hstack>>
loopvars == <<last_time_ns, last_packet_count, current_state, clock>>
vars == <<argv, mode, prob, max_prob, min_rate, max_rate, pc, proc, handlers,
          hstack, hook, state_map, last_time_ns, last_packet_count,
          current_state, clock, fp, hist>>

Signals == {"SIGINT", "SIGTERM"}

\* a record that starts with a probability already set
PresetState == [packet_count |-> 0, dropped_count |-> 0, drop_probability |-> 50]

\* struct state, zero-initialised (an array map's value starts zeroed)
ZeroState == [packet_count |-> 0, dropped_count |-> 0, drop_probability |-> 0]

NoHook == [exists |-> FALSE, ingress |-> FALSE, egress |-> FALSE]

\* a CPU that is not running the classifier; found, pinc, dinc and verdict
\* record whether its last invocation found the record, what it added to
\* packet_count and dropped_count, and what it returned
IdleCpu == [pc |-> "idle", found |-> FALSE, pinc |-> 0, dinc |-> 0, verdict |-> "none"]

\* an invocation whose lookup failed and that dropped the packet
LookupFailedShot == [IdleCpu EXCEPT !.verdict = "TC_ACT_SHOT"]

\* if (!s) return TC_ACT_OK;
LookupFailed == [IdleCpu EXCEPT !.verdict = "TC_ACT_OK"]

NoHistory ==
    [hook_create |-> FALSE, attach |-> FALSE, failed |-> FALSE, handled |-> FALSE,
     updates |-> 0, cleanups |-> 0, arrivals |-> 0, iters |-> 0, since |-> 0]

Init ==
    /\ argv \in Cmdlines
    /\ mode = "unset"
    /\ prob = 0 - 1
    /\ max_prob = DEFAULT_MAX_PROBABILITY
    /\ min_rate = DEFAULT_MIN_RATE_PPS
    /\ max_rate = DEFAULT_MAX_RATE_PPS
    /\ pc = "parse"
    /\ proc = "running"
    /\ handlers = {}
    /\ hstack = <<>>
    /\ hook = NoHook
    /\ state_map = ZeroState
    /\ last_time_ns = 0
    /\ last_packet_count = 0
    /\ current_state = ZeroState
    /\ clock = 0
    /\ fp = [c \in Cpus |-> IdleCpu]
    /\ hist = NoHistory

\* main runs when the process is alive and no signal handler is running
MainRuns == proc = "running" /\ hstack = <<>>

\* `return 1` from main
Return1 == pc' = "done" /\ proc' = "exit1"

(***************************************************************************)
(* Option parsing and validation (loader.c 100-152).                       *)
(***************************************************************************)
\* the value of an option's local after the getopt loop
OptVal(a, k, default) == IF k \in DOMAIN a.opts THEN atol(a.opts[k]) ELSE default

\* mode after the getopt loop: "unset" is the initial -1
ParsedMode(a) ==
    CASE a.mode = "dynamic" -> "MODE_DYNAMIC"
      [] a.mode = "fixed"   -> "MODE_FIXED"
      [] OTHER              -> "unset"

\* the getopt loop returns 1 on an unknown --mode argument and on -h
ParseFails(a) == a.mode \notin {"", "dynamic", "fixed"} \/ a.help

\* the range check of --prob without its lower bound
FixedProbOkNoLower(p) == ~(p > 100)

\* the checks of lines 124-151 on the parsed locals
FixedProbOk(p) == ~(p < 0 \/ p > 100)
DynamicMaxProbOk(p) == ~(p < 0 \/ p > 100)

ValidationFails(m, p, mp, hasif) ==
    \/ m = "unset"
    \/ (m = "MODE_FIXED" /\ p = 0 - 1)
    \/ (m = "MODE_FIXED" /\ ~FixedProbOk(p))
    \/ (m # "MODE_FIXED" /\ ~DynamicMaxProbOk(mp))
    \/ ~hasif

ParseArgs ==
    /\ MainRuns /\ pc = "parse"
    /\ mode' = ParsedMode(argv)
    /\ prob' = OptVal(argv, "p", prob)
    /\ max_prob' = OptVal(argv, "P", max_prob)
    /\ min_rate' = OptVal(argv, "m", min_rate)
    /\ max_rate' = OptVal(argv, "M", max_rate)
    /\ IF ParseFails(argv) \/ ValidationFails(mode', prob', max_prob', argv.ifname)
       THEN Return1
       ELSE pc' = "if_nametoindex" /\ proc' = proc
    /\ UNCHANGED <<argv, handlers, hstack, hook, state_map, loopvars, fp, hist>>

(***************************************************************************)
(* cleanup(sig) (loader.c 42-47): bpf_tc_hook_destroy, then exit(0).  It   *)
(* runs in main (the error paths call cleanup(0)) and as the handler of    *)
(* SIGINT and SIGTERM.                                                     *)
(***************************************************************************)
\* the position of the context that is running: the innermost handler, or main
CurPc == IF hstack = <<>> THEN pc ELSE hstack[Len(hstack)].pc

SetCurPc(v) ==
    IF hstack = <<>>
    THEN pc' = v /\ hstack' = hstack
    ELSE pc' = pc /\ hstack' = [hstack EXCEPT ![Len(hstack)].pc = v]

InCleanup(p) == p \in {"cl_destroy", "cl_exit"}

\* the running handler interrupted a cleanup that was inside
\* bpf_tc_hook_destroy or exit
Reentrant == hstack # <<>> /\ (InCleanup(pc) \/ Len(hstack) >= 2)

\* what a call of bpf_tc_hook_destroy or exit made by cleanup can do.  Neither
\* is async-signal-safe, and exit called a second time is undefined: re-entered
\* from a handler they may block on a lock the interrupted call holds.
CallOutcomes == IF Reentrant THEN {"returns", "blocks"} ELSE {"returns"}

\* main calls cleanup(0)
CallCleanup ==
    /\ pc' = "cl_destroy" /\ proc' = proc
    /\ hist' = [hist EXCEPT !.failed = TRUE, !.cleanups = @ + 1]

\* bpf_tc_hook_destroy(&hook) with both attach points: the hook and its
\* filters go; on a hook that is gone it fails and the error is ignored
CleanupDestroy ==
    /\ proc = "running" /\ CurPc = "cl_destroy"
    /\ \E o \in CallOutcomes :
          IF o = "returns"
          THEN /\ hook' = NoHook
               /\ SetCurPc("cl_exit")
               /\ proc' = proc
          ELSE /\ proc' = "hung"
               /\ hstack' = <<>>
               /\ UNCHANGED <<pc, hook>>
    /\ UNCHANGED <<cfgvars, handlers, state_map, loopvars, fp, hist>>

\* exit(0)
CleanupExit ==
    /\ proc = "running" /\ CurPc = "cl_exit"
    /\ \E o \in CallOutcomes :
          IF o = "returns"
          THEN proc' = "exit0" /\ pc' = "done"
          ELSE proc' = "hung" /\ pc' = pc
    /\ hstack' = <<>>
    /\ UNCHANGED <<cfgvars, handlers, hook, state_map, loopvars, fp, hist>>

\* a signal arrives.  With cleanup installed for it the handler starts, unless
\* that signal's handler is already running (signal() blocks it meanwhile);
\* otherwise the default action ends the process, and nothing is torn down.
\* With cleanup installed for both, the two signals are interchangeable: the
\* first one handled is taken to be SIGINT.
Deliver(sig) ==
    /\ proc = "running"
    /\ IF sig \in handlers
       THEN /\ \A i \in 1..Len(hstack) : hstack[i].sig # sig
            /\ (hstack = <<>> /\ handlers = Signals) => sig = "SIGINT"
            /\ hstack' = Append(hstack, [sig |-> sig, pc |-> "cl_destroy"])
            /\ hist' = [hist EXCEPT !.handled = TRUE, !.cleanups = @ + 1]
            /\ proc' = proc /\ pc' = pc
       ELSE /\ proc' = "killed"
            /\ pc' = "done"
            /\ hstack' = <<>>
            /\ hist' = hist
    /\ UNCHANGED <<cfgvars, handlers, hook, state_map, loopvars, fp>>

(***************************************************************************)
(* Loading and attaching (loader.c 155-185).                               *)
(***************************************************************************)
\* a call that either succeeds, and main goes on to `next`, or makes main return 1
SetupStep(at, next) ==
    /\ MainRuns /\ pc = at
    /\ \E ok \in BOOLEAN :
          IF ok
          THEN pc' = next /\ proc' = proc /\ hist' = hist
          ELSE Return1 /\ hist' = [hist EXCEPT !.failed = TRUE]
    /\ UNCHANGED <<cfgvars, handlers, hstack, hook, state_map, loopvars, fp>>

IfNameToIndex == SetupStep("if_nametoindex", "open_file")
OpenFile      == SetupStep("open_file", "load")
LoadObject    == SetupStep("load", "find_programs")
FindPrograms  == SetupStep("find_programs", "hook_create")

\* bpf_tc_hook_create: -EEXIST (the hook is already there) is accepted
HookCreate ==
    /\ MainRuns /\ pc = "hook_create"
    /\ \E err \in {"0", "EEXIST", "other"} :
          IF err = "other"
          THEN /\ Return1 /\ hook' = hook
               /\ hist' = [hist EXCEPT !.hook_create = TRUE, !.failed = TRUE]
          ELSE /\ hook' = [hook EXCEPT !.exists = TRUE]
               /\ pc' = "attach_ingress" /\ proc' = proc
               /\ hist' = [hist EXCEPT !.hook_create = TRUE]
    /\ UNCHANGED <<cfgvars, handlers, hstack, state_map, loopvars, fp>>

\* bpf_tc_attach on one direction; on failure main calls cleanup(0)
Attach(at, dir, next) ==
    /\ MainRuns /\ pc = at
    /\ \E ok \in BOOLEAN :
          IF ok
          THEN /\ hook' = [hook EXCEPT ![dir] = TRUE]
               /\ pc' = next /\ proc' = proc
               /\ hist' = [hist EXCEPT !.attach = TRUE]
          ELSE /\ hook' = hook
               /\ pc' = "cl_destroy" /\ proc' = proc
               /\ hist' = [hist EXCEPT !.attach = TRUE, !.failed = TRUE,
                                        !.cleanups = @ + 1]
    /\ UNCHANGED <<cfgvars, handlers, hstack, state_map, loopvars, fp>>

AttachIngress == Attach("attach_ingress", "ingress", "attach_egress")
AttachEgress  == Attach("attach_egress", "egress", "find_map")

\* bpf_object__find_map_fd_by_name; on failure main calls cleanup(0)
FindMap ==
    /\ MainRuns /\ pc = "find_map"
    /\ \E ok \in BOOLEAN :
          IF ok
          THEN pc' = "signal_int" /\ proc' = proc /\ hist' = hist
          ELSE CallCleanup
    /\ UNCHANGED <<cfgvars, handlers, hstack, hook, state_map, loopvars, fp>>

\* signal(SIGINT, cleanup); signal(SIGTERM, cleanup); then the mode's branch
SignalInt ==
    /\ MainRuns /\ pc = "signal_int"
    /\ handlers' = handlers \cup {"SIGINT"}
    /\ pc' = "signal_term"
    /\ UNCHANGED <<cfgvars, proc, hstack, hook, state_map, loopvars, fp, hist>>

SignalTerm ==
    /\ MainRuns /\ pc = "signal_term"
    /\ handlers' = handlers \cup {"SIGTERM"}
    /\ pc' = (IF mode = "MODE_FIXED" THEN "fixed_write" ELSE "dyn_init")
    /\ UNCHANGED <<cfgvars, proc, hstack, hook, state_map, loopvars, fp, hist>>

(***************************************************************************)
(* Fixed mode (loader.c 189-201).                                          *)
(***************************************************************************)
\* a fixed record that takes the dynamic mode's max_prob for the probability
FixedStateMaxProb(p) ==
    [packet_count |-> 0, dropped_count |-> 0, drop_probability |-> max_prob % Pow2(U32Bits)]

\* struct state fixed_state = { 0, 0, prob }
FixedState(p) ==
    [packet_count |-> 0, dropped_count |-> 0, drop_probability |-> p % Pow2(U32Bits)]

\* bpf_map_update_elem(map_fd, &key, &fixed_state, BPF_ANY); on failure cleanup(0)
FixedWrite ==
    /\ MainRuns /\ pc = "fixed_write"
    /\ \E ok \in BOOLEAN :
          IF ok
          THEN /\ state_map' = FixedState(prob)
               /\ pc' = "fixed_idle"
               /\ hist' = [hist EXCEPT !.updates = @ + 1]
          ELSE /\ state_map' = state_map
               /\ pc' = "cl_destroy"
               /\ hist' = [hist EXCEPT !.updates = @ + 1, !.failed = TRUE,
                                        !.cleanups = @ + 1]
    /\ UNCHANGED <<cfgvars, proc, handlers, hstack, hook, loopvars, fp>>

\* while (1) sleep(30)
FixedSleep ==
    /\ MainRuns /\ pc = "fixed_idle"
    /\ UNCHANGED vars

(***************************************************************************)
(* Dynamic mode (loader.c 203-223).                                        *)
(***************************************************************************)
\* what the monotonic clock can have advanced by when sleep returns
ClockSteps == {0, UPDATE_INTERVAL_SEC * NSEC_PER_SEC}

\* last_time_ns = get_time_ns()
DynInit ==
    /\ MainRuns /\ pc = "dyn_init"
    /\ last_time_ns' = clock
    /\ pc' = "loop_sleep"
    /\ UNCHANGED <<cfgvars, proc, handlers, hstack, hook, state_map,
                   last_packet_count, current_state, clock, fp, hist>>

\* sleep(UPDATE_INTERVAL_SEC)
LoopSleep ==
    /\ MainRuns /\ pc = "loop_sleep"
    /\ hist.iters < MaxIter
    /\ \E e \in ClockSteps :
          /\ e <= MaxClockNs - clock
          /\ clock' = clock + e
          /\ hist' = [hist EXCEPT !.iters = @ + 1, !.since = @ + e]
    /\ pc' = "lookup"
    /\ UNCHANGED <<cfgvars, proc, handlers, hstack, hook, state_map,
                   last_time_ns, last_packet_count, current_state, fp>>

\* a skipped tick that moves the time baseline to now
BaselineRebased(last, now) == now

\* `continue` at line 209 comes before lines 210-214: the baseline stays
BaselineAfterSkip(last, now) == last

\* bpf_map_lookup_elem copies the record out field by field; a failed lookup
\* makes the loop `continue`.  This step copies packet_count.  current_state
\* is a local of the loop body: outside an iteration it has no value, which
\* the model writes as ZeroState.
LookupPacketCount ==
    /\ MainRuns /\ pc = "lookup"
    /\ \E ok \in BOOLEAN :
          IF ok
          THEN /\ current_state' =
                     [current_state EXCEPT !.packet_count = state_map.packet_count]
               /\ pc' = "lookup_rest"
               /\ last_time_ns' = last_time_ns
          ELSE /\ current_state' = ZeroState
               /\ pc' = "loop_sleep"
               /\ last_time_ns' = BaselineAfterSkip(last_time_ns, clock)
    /\ UNCHANGED <<cfgvars, proc, handlers, hstack, hook, state_map,
                   last_packet_count, clock, fp, hist>>

\* the new probability of lines 210-220 for the sampled packet count `count`
\* at time `now`
TickProb(count, now) ==
    LET time_diff_ns == U64Sub(now, last_time_ns)
        count_diff   == U64Sub(count, last_packet_count)
        pps          == PpsOf(count_diff, time_diff_ns)
    IN  NewProb(pps, min_rate, max_rate, max_prob)

\* the copy of dropped_count and drop_probability, then lines 210-221: the
\* rate since the last sample, the new baseline and the new probability
LookupRestAndCompute ==
    /\ MainRuns /\ pc = "lookup_rest"
    /\ \E new_prob \in TickProb(current_state.packet_count, clock) :
          current_state' =
              [packet_count     |-> current_state.packet_count,
               dropped_count    |-> state_map.dropped_count,
               drop_probability |-> new_prob]
    /\ last_time_ns' = clock
    /\ last_packet_count' = current_state.packet_count
    /\ pc' = "update"
    /\ hist' = [hist EXCEPT !.since = 0]
    /\ UNCHANGED <<cfgvars, proc, handlers, hstack, hook, state_map, clock, fp>>

\* a write-back that zeroes packet_count, as the fixed mode's record does
UpdatedRecordZeroed(old, new) == [new EXCEPT !.packet_count = 0]

\* what bpf_map_update_elem(map_fd, &key, &current_state, BPF_ANY) stores
UpdatedRecord(old, new) == new

\* line 222; the result is ignored
Update ==
    /\ MainRuns /\ pc = "update"
    /\ \E ok \in BOOLEAN :
          state_map' = (IF ok THEN UpdatedRecord(state_map, current_state) ELSE state_map)
    /\ pc' = "loop_sleep"
    /\ current_state' = ZeroState
    /\ hist' = [hist EXCEPT !.updates = @ + 1]
    /\ UNCHANGED <<cfgvars, proc, handlers, hstack, hook, last_time_ns,
                   last_packet_count, clock, fp>>

(***************************************************************************)
(* The classifier (packet_dropper.bpf.c 22-42), run for a packet on a CPU. *)
(***************************************************************************)
\* __sync_fetch_and_add(&field, 1)
FetchAndAdd(v) == v + 1

\* a comparison that also drops when the draw equals the probability
ShouldDropOrEqual(draw, probability) == draw <= probability

\* (bpf_get_prandom_u32() % 100) < s->drop_probability
ShouldDrop(draw, probability) == draw < probability

\* the draws bpf_get_prandom_u32() % 100 can give
Draws == 0..(DRAW_MODULUS - 1)

\* the outcomes of the comparison over all draws
DropOutcomes(probability) == {ShouldDrop(draw, probability) : draw \in Draws}

\* what an invocation has done so far to the counters of the record
Account(c, r) ==
    [fp[c] EXCEPT !.pinc = @ + (r.packet_count - state_map.packet_count),
                  !.dinc = @ + (r.dropped_count - state_map.dropped_count)]

\* a packet in a direction the filter is attached to; the lookup of key 0, and
\* `return TC_ACT_OK` when it fails.  The CPUs are interchangeable: the first
\* packet of a behaviour is taken to arrive on cpu0.
FpEnter(c) ==
    /\ fp[c].pc = "idle"
    /\ hist.arrivals < MaxPackets
    /\ (c = "cpu0" \/ fp["cpu0"] # IdleCpu)
    /\ \E dir \in {"ingress", "egress"} : hook[dir]
    /\ \E found \in BOOLEAN :
          fp' = [fp EXCEPT ![c] =
                    IF found
                    THEN [IdleCpu EXCEPT !.pc = "count", !.found = TRUE]
                    ELSE LookupFailed]
    /\ hist' = [hist EXCEPT !.arrivals = @ + 1]
    /\ UNCHANGED <<cfgvars, procvars, hook, state_map, loopvars>>

\* line 32
FpCount(c) ==
    /\ fp[c].pc = "count"
    /\ state_map' = [state_map EXCEPT !.packet_count = FetchAndAdd(@)]
    /\ fp' = [fp EXCEPT ![c] = [Account(c, state_map') EXCEPT !.pc = "decide"]]
    /\ UNCHANGED <<cfgvars, procvars, hook, loopvars, hist>>

\* line 34: the draw and the comparison with the probability read now
FpDecide(c) ==
    /\ fp[c].pc = "decide"
    /\ \E drop \in DropOutcomes(state_map.drop_probability) :
          fp' = [fp EXCEPT ![c] =
                    IF drop
                    THEN [@ EXCEPT !.pc = "drop"]
                    ELSE [@ EXCEPT !.pc = "idle", !.verdict = "TC_ACT_OK"]]
    /\ UNCHANGED <<cfgvars, procvars, hook, state_map, loopvars, hist>>

\* a drop that is not counted
FpDropUncounted(c) ==
    /\ fp[c].pc = "drop"
    /\ fp' = [fp EXCEPT ![c] = [@ EXCEPT !.pc = "idle", !.verdict = "TC_ACT_SHOT"]]
    /\ UNCHANGED <<cfgvars, procvars, hook, state_map, loopvars, hist>>

\* lines 35-38
FpDrop(c) ==
    /\ fp[c].pc = "drop"
    /\ state_map' = [state_map EXCEPT !.dropped_count = FetchAndAdd(@)]
    /\ fp' = [fp EXCEPT ![c] =
                 [Account(c, state_map') EXCEPT !.pc = "idle", !.verdict = "TC_ACT_SHOT"]]
    /\ UNCHANGED <<cfgvars, procvars, hook, loopvars, hist>>

(***************************************************************************)
(* The system.                                                             *)
(***************************************************************************)
Next ==
    \/ ParseArgs
    \/ IfNameToIndex
    \/ OpenFile
    \/ LoadObject
    \/ FindPrograms
    \/ HookCreate
    \/ AttachIngress
    \/ AttachEgress
    \/ FindMap
    \/ SignalInt
    \/ SignalTerm
    \/ FixedWrite
    \/ FixedSleep
    \/ DynInit
    \/ LoopSleep
    \/ LookupPacketCount
    \/ LookupRestAndCompute
    \/ Update
    \/ CleanupDestroy
    \/ CleanupExit
    \/ \E sig \in Signals : Deliver(sig)
    \/ \E c \in Cpus : FpEnter(c)
    \/ \E c \in Cpus : FpCount(c)
    \/ \E c \in Cpus : FpDecide(c)
    \/ \E c \in Cpus : FpDrop(c)

Spec == Init /\ [][Next]_vars

(***************************************************************************)
(* Properties.                                                             *)
(***************************************************************************)

\* C1: in every reachable state the drop_probability of the shared record is
\* an integer in [0,100], in both modes and for every accepted configuration.
C1_ProbabilityInRange ==
    state_map.drop_probability \in 0..100

\* C2: no step makes packet_count or dropped_count of the shared record
\* smaller than it was in the preceding state.
C2_CountersMonotonic ==
    [][/\ state_map'.packet_count >= state_map.packet_count
       /\ state_map'.dropped_count >= state_map.dropped_count]_vars

\* C3: a write of the record by user space (the dynamic tick's or the fixed
\* mode's bpf_map_update_elem) leaves packet_count and dropped_count as they
\* were just before it, and a classifier step leaves drop_probability as it was.
C3_SingleWriterPerField ==
    [][/\ (hist'.updates = hist.updates + 1) =>
              /\ state_map'.packet_count = state_map.packet_count
              /\ state_map'.dropped_count = state_map.dropped_count
       /\ (fp' # fp) =>
              state_map'.drop_probability = state_map.drop_probability]_vars

\* C4: an invocation of the classifier that found the record has added exactly
\* one to packet_count once it is past line 32, whatever it returns, and has
\* added one to dropped_count if it returned TC_ACT_SHOT and nothing otherwise,
\* also while another invocation is under way.
C4_CountsPerInvocation ==
    \A c \in Cpus :
        /\ (fp[c].found /\ fp[c].pc # "count") => fp[c].pinc = 1
        /\ (fp[c].found /\ fp[c].verdict = "TC_ACT_SHOT") => fp[c].dinc = 1
        /\ (fp[c].found /\ fp[c].verdict # "TC_ACT_SHOT") => fp[c].dinc = 0
        /\ (fp[c].found /\ fp[c].pc = "idle") =>
               fp[c].verdict \in {"TC_ACT_OK", "TC_ACT_SHOT"}

\* C4's case: an invocation returned TC_ACT_SHOT, having counted the packet
\* and the drop, while the invocation on the other CPU was under way.
C4_Witness ==
    \E c, d \in Cpus :
        /\ c # d
        /\ fp[c].found /\ fp[c].verdict = "TC_ACT_SHOT"
        /\ fp[c].pinc = 1 /\ fp[c].dinc = 1
        /\ fp[d].pc \in {"decide", "drop"}

\* C5: in fixed mode no iteration of the dynamic loop runs, user space calls
\* bpf_map_update_elem at most once, the probability is 0 until that call,
\* and from the call's success on (main idles in its sleep loop, until the
\* process ends) exactly one call was made and drop_probability equals prob.
C5_FixedProbabilityFrozen ==
    mode = "MODE_FIXED" =>
        /\ hist.iters = 0
        /\ hist.updates <= 1
        /\ (hist.updates = 0 => state_map.drop_probability = 0)
        /\ (pc = "fixed_idle" =>
                /\ hist.updates = 1
                /\ prob \in 0..100
                /\ state_map.drop_probability = prob)

\* C5's case: fixed mode with --prob 37 idling after its write, the record
\* holding 37 while packets are being counted.
C5_Witness ==
    /\ mode = "MODE_FIXED" /\ prob = 37
    /\ pc = "fixed_idle"
    /\ state_map.drop_probability = 37
    /\ state_map.packet_count > 0

\* C6: a tick whose lookup succeeds with now - last_time_ns <= 0 stores no new
\* probability (the probability of the record it writes is the one the map
\* holds) and still advances last_time_ns and last_packet_count to the sample.
C6_ZeroElapsedGuard ==
    [][(pc = "lookup_rest" /\ pc' = "update" /\ clock - last_time_ns <= 0) =>
          /\ current_state'.drop_probability = state_map.drop_probability
          /\ last_time_ns' = clock
          /\ last_packet_count' = current_state.packet_count]_vars

\* C7: the process exits with status 0 only when a signal handler ran; after a
\* failed setup call, with no signal handled, a process that has exited has
\* status 1 and the hook and both filters are gone.
C7_SetupFailureExitsOne ==
    /\ (proc = "exit0") => hist.handled
    /\ (hist.failed /\ ~hist.handled /\ proc \in {"exit0", "exit1"}) =>
           (proc = "exit1" /\ hook = NoHook)

\* C8: when cleanup has been entered more than once the process neither
\* faults nor blocks (it runs on, or has exited), and once a call of
\* bpf_tc_hook_destroy has returned the hook stays detached.
C8_TeardownReentrant ==
    /\ (hist.cleanups >= 2) => proc \in {"running", "exit0"}
    /\ (hist.cleanups >= 1 /\ (proc = "exit0" \/ CurPc = "cl_exit" \/ pc = "cl_exit")) =>
           hook = NoHook

\* the configurations C9 names: --mode missing or not dynamic/fixed, fixed
\* mode without --prob or with --prob outside [0,100], dynamic mode with
\* --max-prob outside [0,100], or no interface argument
C9_Rejected(a) ==
    \/ a.mode \notin {"dynamic", "fixed"}
    \/ (a.mode = "fixed" /\ "p" \notin DOMAIN a.opts)
    \/ (a.mode = "fixed" /\ "p" \in DOMAIN a.opts /\ atol(a.opts["p"]) \notin 0..100)
    \/ (a.mode = "dynamic" /\ "P" \in DOMAIN a.opts /\ atol(a.opts["P"]) \notin 0..100)
    \/ ~a.ifname

\* C9: with such a command line no hook creation and no attach is attempted,
\* the record is never written, nothing is attached, and the process, once
\* past option parsing, has ended: with status 1 unless a signal killed it
\* before it parsed its options.
C9_ConfigErrorsBeforeSideEffects ==
    C9_Rejected(argv) =>
        /\ ~hist.hook_create /\ ~hist.attach /\ hist.updates = 0
        /\ hook = NoHook /\ state_map = ZeroState
        /\ (proc = "running") => pc = "parse"
        /\ proc \in {"running", "exit1", "killed"}
        /\ (proc = "killed") => mode = "unset"

\* C9's case: --mode fixed --prob 150 has been rejected with status 1.
C9_Witness ==
    /\ argv.mode = "fixed" /\ "p" \in DOMAIN argv.opts /\ argv.opts["p"] = "150"
    /\ prob = 150
    /\ proc = "exit1"

\* the mapping C10 states, in exact arithmetic on the rate n/d (d > 0)
C10_F(n, d, minr, maxr, maxp) ==
    IF n <= minr * d THEN 0
    ELSE IF n >= maxr * d THEN maxp
    ELSE ((n - minr * d) * maxp) \div (d * (maxr - minr))

\* C10: a tick whose lookup succeeds with elapsed time > 0 computes
\* f(pps) as the probability of the record it writes, and the write is issued
\* on every such tick (stored unless bpf_map_update_elem fails); with
\* min_rate = 1000, max_rate = 100000, max_probability = 50 the code maps
\* 500 -> 0, 1000 -> 0, 50500 -> 25, 100000 -> 50, 200000 -> 50.
C10_TickWritesMapping ==
    [][/\ NewProb([num |-> 500, den |-> 1], 1000, 100000, 50) = {0}
       /\ NewProb([num |-> 1000, den |-> 1], 1000, 100000, 50) = {0}
       /\ NewProb([num |-> 50500, den |-> 1], 1000, 100000, 50) = {25}
       /\ NewProb([num |-> 100000, den |-> 1], 1000, 100000, 50) = {50}
       /\ NewProb([num |-> 200000, den |-> 1], 1000, 100000, 50) = {50}
       /\ (pc = "lookup_rest" /\ pc' = "update" /\ clock - last_time_ns > 0) =>
              LET pps == PpsOf(current_state.packet_count - last_packet_count,
                               clock - last_time_ns)
              IN  current_state'.drop_probability =
                      C10_F(pps.num, pps.den, min_rate, max_rate, max_prob)
       /\ (pc = "update" /\ pc' = "loop_sleep") =>
              /\ hist'.updates = hist.updates + 1
              /\ \/ state_map' = state_map
                 \/ state_map'.drop_probability = current_state.drop_probability]_vars

\* C11: for every probability p in [0,100] and every draw d in [0,100) the
\* classifier's comparison says drop exactly when d < p (evaluated once, on
\* the first step of a behaviour); a step of line 34
\* that reads p = 0 never goes on to drop, one that reads p = 100 always does,
\* one that drops read p > 0 and one that accepts read p < 100; and an
\* invocation returns TC_ACT_SHOT only through that drop branch.
C11_DropIffDrawBelow ==
    [][/\ (pc = "parse" /\ pc' # "parse") =>
             \A p \in 0..100 : \A d \in Draws : ShouldDrop(d, p) <=> (d < p)
       /\ \A c \in Cpus :
             (fp[c].pc = "decide" /\ fp'[c].pc # "decide"
                 /\ state_map.drop_probability \in 0..100) =>
                LET p == state_map.drop_probability
                    drop == fp'[c].pc = "drop"
                IN  /\ \E d \in Draws : drop <=> (d < p)
                    /\ (p = 0) => ~drop
                    /\ (p = 100) => drop
                    /\ ~drop => (fp'[c].pc = "idle" /\ fp'[c].verdict = "TC_ACT_OK")
       /\ \A c \in Cpus :
             (fp'[c].verdict = "TC_ACT_SHOT" /\ fp'[c] # fp[c]) => fp[c].pc = "drop"]_vars

\* C11's case: with probability 37 in the record one invocation has returned
\* TC_ACT_SHOT and another, which found the record, TC_ACT_OK.
C11_Witness ==
    /\ state_map.drop_probability = 37
    /\ hist.updates = 1
    /\ \E c, d \in Cpus :
          /\ fp[c].found /\ fp[c].verdict = "TC_ACT_SHOT"
          /\ fp[d].found /\ fp[d].verdict = "TC_ACT_OK" /\ fp[d].pc = "idle"

\* C12: a tick whose lookup fails changes neither the record nor
\* last_time_ns nor last_packet_count, issues no write, leaves the process
\* running and goes back to the sleep of the next period; only a sampling
\* tick moves the baseline, so the next tick whose lookup succeeds takes its
\* elapsed time over everything slept since the last sample that was taken,
\* and its packet delta against that sample.
C12_SkippedTick ==
    [][/\ (pc = "lookup" /\ pc' = "loop_sleep") =>
              /\ state_map' = state_map
              /\ last_time_ns' = last_time_ns
              /\ last_packet_count' = last_packet_count
              /\ hist'.updates = hist.updates
              /\ proc' = "running"
       /\ (last_time_ns' # last_time_ns \/ last_packet_count' # last_packet_count) =>
              pc \in {"dyn_init", "lookup_rest"}
       /\ (pc = "lookup_rest" /\ pc' = "update") =>
              /\ U64Sub(clock, last_time_ns) = hist.since
              /\ last_time_ns' = clock
              /\ last_packet_count' = current_state.packet_count]_vars

\* C12's case: the first tick was skipped and wrote nothing; the second
\* sampled 2 packets 2 s after the start and, with min_rate 1 and max_rate 3,
\* computed probability 0 from the rate over the 2 s (1 pps), where the rate
\* over its own period (2 pps) would give 25.
C12_Witness ==
    /\ hist.iters = 2 /\ hist.updates = 0
    /\ pc = "update"
    /\ min_rate = 1 /\ max_rate = 3 /\ max_prob = 50
    /\ clock = 2 * NSEC_PER_SEC /\ last_time_ns = clock
    /\ current_state.packet_count = 2 /\ last_packet_count = 2
    /\ current_state.drop_probability = 0

\* C13: while a filter is attached to the interface a SIGINT or SIGTERM is
\* handled by cleanup: no signal ends the process with a filter still
\* attached, and a process that exited after a handler ran has status 0 and
\* left neither hook nor filter.
C13_SignalsRoutedToTeardown ==
    /\ (proc = "killed") => ~(hook.ingress \/ hook.egress)
    /\ (hist.handled /\ proc \in {"exit0", "exit1"}) => (proc = "exit0" /\ hook = NoHook)

\* what C14 says of a state (it holds trivially of the initial one): an attach
\* was attempted, or a filter is attached, only with a mode, a probability in
\* [0,100] for that mode and an interface argument, and while user space has
\* not called bpf_map_update_elem the record's probability is 0 and no
\* invocation has dropped or is about to drop a packet
C14_Ordered ==
    /\ (hist.attach \/ hook.ingress \/ hook.egress) =>
           /\ argv.ifname /\ ~argv.help
           /\ mode \in {"MODE_FIXED", "MODE_DYNAMIC"}
           /\ (mode = "MODE_FIXED") => prob \in 0..100
           /\ (mode = "MODE_DYNAMIC") => max_prob \in 0..100
    /\ (hist.updates = 0) =>
           /\ state_map.drop_probability = 0
           /\ state_map.dropped_count = 0
           /\ \A c \in Cpus : fp[c].verdict # "TC_ACT_SHOT" /\ fp[c].pc # "drop"

\* C14: filters are attached only after validation succeeded; every call of
\* bpf_map_update_elem by user space, the first included, is made with both
\* the ingress and the egress filter attached; and until the first such call
\* the classifier reads probability 0 and drops nothing.
C14_StartupOrdering ==
    [][/\ C14_Ordered'
       /\ (hist'.updates = hist.updates + 1) => (hook.ingress /\ hook.egress)
       /\ (hook'.egress /\ ~hook.egress) => hook.ingress]_vars

\* C14's case: fixed mode with --prob 100, both filters attached and main
\* about to make its write; a packet was counted and accepted before it.
C14_Witness ==
    /\ pc = "fixed_write" /\ prob = 100
    /\ hook.ingress /\ hook.egress
    /\ hist.updates = 0
    /\ state_map.packet_count >= 1
    /\ \E c \in Cpus : fp[c].found /\ fp[c].verdict = "TC_ACT_OK" /\ fp[c].pc = "idle"

\* C15: an invocation whose lookup of the record fails returns TC_ACT_OK at
\* once: it never reaches the counting or the drop branch, has added nothing
\* to either counter, and the step that runs it leaves the record as it was.
C15_LookupFailureAccepts ==
    [][/\ \A c \in Cpus :
             (~fp'[c].found /\ fp'[c].verdict # "none") =>
                /\ fp'[c].verdict = "TC_ACT_OK"
                /\ fp'[c].pc = "idle"
                /\ fp'[c].pinc = 0 /\ fp'[c].dinc = 0
       /\ (hist'.arrivals = hist.arrivals + 1) =>
             /\ state_map' = state_map
             /\ \E c \in Cpus :
                   /\ fp[c].pc = "idle"
                   /\ \A d \in Cpus \ {c} : fp'[d] = fp[d]
                   /\ \/ fp'[c].found /\ fp'[c].pc = "count"
                      \/ ~fp'[c].found /\ fp'[c].pc = "idle"
                            /\ fp'[c].verdict = "TC_ACT_OK"]_vars

\* C15's case: the record holds probability 100, yet an invocation whose
\* lookup failed returned TC_ACT_OK and no packet was counted.
C15_Witness ==
    /\ state_map = [packet_count |-> 0, dropped_count |-> 0, drop_probability |-> 100]
    /\ hist.updates = 1 /\ hist.arrivals >= 1
    /\ \E c \in Cpus : ~fp[c].found /\ fp[c].verdict = "TC_ACT_OK" /\ fp[c].pc = "idle"

\* C16: in every reachable state the record's dropped_count is at most its
\* packet_count, whatever the interleaving of classifier invocations with the
\* dynamic loop's read and write-back and with the fixed mode's write.
C16_DroppedAtMostCounted ==
    state_map.dropped_count <= state_map.packet_count

\* C17: in dynamic mode the record's packet_count never falls below
\* last_packet_count, so a tick whose lookup succeeds samples a packet_count
\* >= last_packet_count and its unsigned delta is the plain difference, not a
\* wrapped one, also after a write-back that lost increments, a failed write
\* or a skipped tick.
C17_DeltaNeverWraps ==
    [][/\ (mode' = "MODE_DYNAMIC") => state_map'.packet_count >= last_packet_count'
       /\ (pc = "lookup" /\ pc' = "lookup_rest") =>
              current_state'.packet_count >= last_packet_count
       /\ (pc = "lookup_rest" /\ pc' = "update") =>
              /\ current_state.packet_count >= last_packet_count
              /\ U64Sub(current_state.packet_count, last_packet_count)
                     = current_state.packet_count - last_packet_count]_vars

\* C17's case: the second tick samples after the first tick's write-back lost
\* an increment (two packets were counted, the record says 1): the sample
\* equals last_packet_count and the delta is 0.
C17_Witness ==
    /\ mode = "MODE_DYNAMIC" /\ hist.iters = 2 /\ hist.updates = 1
    /\ pc = "lookup_rest"
    /\ \A c \in Cpus : fp[c].pinc = 1
    /\ state_map.packet_count = 1
    /\ last_packet_count = 1 /\ current_state.packet_count = 1

==========================================================================
